---- MODULE Spec2Model ----
(***************************************************************************)
(* TensorRT execution provider helpers of onnxruntime                      *)
(* (core/providers/tensorrt/tensorrt_execution_provider_helper.cc):        *)
(* the subgraph context store and its builder, the outer-scope resolver,   *)
(* the graph-input reconciler, the DequantizeLinear selector and the       *)
(* partition patch-up.                                                     *)
(***************************************************************************)
EXTENDS Integers, Sequences, FiniteSets, TLC

VARIABLES
  graph,          \* the original graph tree (read only): graph id -> Graph
  graph_build,    \* the newly built (candidate) graph tree: graph id -> Graph
  subgraph_context_map_,  \* identity -> SubGraphContext
  call,           \* the call that returned last: operation, arguments, outcome
  built,          \* graphs on which BuildSubGraphContext has returned normally
  build_order,    \* identities in the order their contexts were created
  calls,          \* number of calls made so far
  viewer,         \* the GraphViewer the selector and the patch-up read
  selection_node_set,     \* out: the DequantizeLinear nodes selected
  consumer_to_dq,         \* out: consumer NodeIndex -> DequantizeLinear NodeIndex
  supported_node_vector,  \* the current partition: [first: positions, second: supported]
  supported_nodes_vector, \* all partitions
  aliased,        \* k > 0: the current partition is element k of all partitions
  appended        \* positions the last patch-up call appended

ctx_vars == <<graph, graph_build, subgraph_context_map_, call, built, build_order, calls>>
dq_vars == <<viewer, selection_node_set, consumer_to_dq, supported_node_vector,
             supported_nodes_vector, aliased, appended>>
vars == <<ctx_vars, dq_vars>>

----------------------------------------------------------------------------
(* Bounds of the graph model *)

\* The calls made in one behaviour
MaxCalls == 3

\* The graphs of a tree: the top-level graph and two subgraphs, nested in
\* each other or side by side
GraphIds == 1..3
Values == {"x", "y"}
NodeNames == {"n1", "n2"}
GraphNames == {"g", "h"}

----------------------------------------------------------------------------
(* Graph, Node, NodeArg: the collaborator's data the helper reads *)

NullNode ==
  [live |-> FALSE, name |-> "", inputs |-> <<>>, outputs |-> <<>>,
   implicit |-> <<>>, subgraphs |-> <<>>]

MkNode(nm, ins, outs, impl, subs) ==
  [live |-> TRUE, name |-> nm, inputs |-> ins, outputs |-> outs,
   implicit |-> impl, subgraphs |-> subs]

NodeArg(g, nm) == [graph |-> g, name |-> nm]

Range(s) == {s[i] : i \in DOMAIN s}

\* graph.MaxNodeIndex(): the node slots are 0 .. MaxNodeIndex-1 (here 1 .. Len)
MaxNodeIndex(T, g) == Len(T[g].nodes)

\* graph.GetNode(i): the node, or nullptr for a removed slot
GetNode(T, g, i) == T[g].nodes[i]

\* graph.ParentGraph() / MutableParentGraph(): 0 stands for nullptr
ParentGraph(T, g) == T[g].parent

\* graph.ParentNode(): slot of the node that owns the graph, 0 for nullptr
ParentNode(T, g) == T[g].parent_node

\* graph.GetNodeArg(name) != nullptr
GetNodeArg(T, g, nm) == nm \in T[g].node_args

\* graph.GetInputsIncludingInitializers()
GetInputsIncludingInitializers(T, g) == T[g].inputs

----------------------------------------------------------------------------
(* GetUniqueGraphName *)

NameCode(str) == CASE str = "n1" -> 1 [] str = "n2" -> 2 [] OTHER -> 0

\* hash_str: MurmurHash3::x86_128 seeded with the previous hash[0].  The
\* digest is modelled by a chained mixing function that is injective on the
\* node-name sequences of the model; the seed word is cut to 16 bits.
hash_str(seed, str) == (seed * 33 + NameCode(str)) % 65536

RECURSIVE HashNodes(_, _, _, _)
HashNodes(T, g, i, hash) ==
  IF i > MaxNodeIndex(T, g) THEN hash
  ELSE IF ~GetNode(T, g, i).live THEN HashNodes(T, g, i + 1, hash)
  ELSE HashNodes(T, g, i + 1, hash_str(hash, GetNode(T, g, i).name))

\* graph.Name() + "_" + std::to_string(model_hash): the pair of its two parts
\* GetUniqueGraphName hashing the number of node args of the graph as well
GetUniqueGraphName_WithNodeArgs(T, g) ==
  <<T[g].name, HashNodes(T, g, 1, Cardinality(T[g].node_args))>>

GetUniqueGraphName(T, g) == <<T[g].name, HashNodes(T, g, 1, 0)>>

----------------------------------------------------------------------------
(* IsLocalValue, IsInputInitializerOrOutput, IsOuterScopeValue *)

HasContext(store, id) == id \in DOMAIN store

IsLocalValue(store, T, g, nm) ==
  LET unique_graph_name == GetUniqueGraphName(T, g) IN
  IF ~HasContext(store, unique_graph_name) THEN FALSE
  ELSE LET context == store[unique_graph_name] IN
       \/ nm \in context.output_args
       \/ nm \in DOMAIN context.inputs_and_initializers

RECURSIVE IsInputInitializerOrOutput(_, _, _, _, _)
IsInputInitializerOrOutput(store, T, g, nm, check_ancestors) ==
  \/ IsLocalValue(store, T, g, nm)
  \/ /\ check_ancestors
     /\ ParentGraph(T, g) # 0
     /\ IsInputInitializerOrOutput(store, T, ParentGraph(T, g), nm, check_ancestors)

IsOuterScopeValue(store, T, g, nm) ==
  /\ ParentGraph(T, g) # 0
  /\ IsInputInitializerOrOutput(store, T, ParentGraph(T, g), nm, TRUE)

----------------------------------------------------------------------------
(* SubGraphContext and BuildSubGraphContext *)

EmptyMap == [nm \in {} |-> NodeArg(0, "")]

NewContext ==
  [output_args |-> {}, inputs_and_initializers |-> EmptyMap,
   manually_added_graph_inputs |-> EmptyMap]

\* The subgraphs of a node in the order the attribute map is iterated: the
\* map is unordered, `ord` (a permutation of the graph ids) is the order
\* this build happens to produce.
SubgraphsInOrder(node, ord) ==
  SelectSeq(ord, LAMBDA c : c \in Range(node.subgraphs))

\* Collect all nodes' outputs (lines 99-109)
CollectOutputs(T, g) ==
  UNION {Range(GetNode(T, g, i).outputs) :
           i \in {j \in 1..MaxNodeIndex(T, g) : GetNode(T, g, j).live}}

\* The input defs of all live nodes, by increasing node index (lines 112-118)
RECURSIVE InputDefsFrom(_, _, _)
InputDefsFrom(T, g, i) ==
  IF i > MaxNodeIndex(T, g) THEN <<>>
  ELSE IF ~GetNode(T, g, i).live THEN InputDefsFrom(T, g, i + 1)
  ELSE GetNode(T, g, i).inputs \o InputDefsFrom(T, g, i + 1)

\* Go thru all node's inputs (lines 118-125).  `bad` are the names for which
\* ConvertInMemoryDataToInline fails: ORT_THROW_IF_ERROR then throws, after
\* the input has been recorded.
RECURSIVE ScanInputs(_, _, _, _, _, _)
ScanInputs(ins, k, g, output_args, map, bad) ==
  IF k > Len(ins) THEN [map |-> map, ok |-> TRUE]
  ELSE IF ins[k] \in output_args THEN ScanInputs(ins, k + 1, g, output_args, map, bad)
  ELSE LET map1 == (ins[k] :> NodeArg(g, ins[k])) @@ map IN
       IF ins[k] \in bad THEN [map |-> map1, ok |-> FALSE]
       ELSE ScanInputs(ins, k + 1, g, output_args, map1, bad)

\* BuildOwnContext without the early return on a known identity
BuildOwnContext_Rebuild(T, g, R, bad) ==
  LET unique_graph_name == GetUniqueGraphName(T, g)
      output_args == CollectOutputs(T, g)
      scan == ScanInputs(InputDefsFrom(T, g, 1), 1, g, output_args, EmptyMap, bad)
      context == [NewContext EXCEPT !.output_args = output_args,
                                    !.inputs_and_initializers = scan.map]
  IN [store |-> (unique_graph_name :> context) @@ R.store,
      order |-> Append(R.order, unique_graph_name),
      ok |-> scan.ok]

\* The body of BuildSubGraphContext after the recursion (lines 89-126)
BuildOwnContext(T, g, R, bad) ==
  LET unique_graph_name == GetUniqueGraphName(T, g) IN
  IF HasContext(R.store, unique_graph_name) THEN R
  ELSE LET output_args == CollectOutputs(T, g)
           scan == ScanInputs(InputDefsFrom(T, g, 1), 1, g, output_args, EmptyMap, bad)
           context == [NewContext EXCEPT !.output_args = output_args,
                                         !.inputs_and_initializers = scan.map]
       IN [store |-> (unique_graph_name :> context) @@ R.store,
           order |-> Append(R.order, unique_graph_name),
           ok |-> scan.ok]

RECURSIVE BuildSubGraphContext(_, _, _, _, _)
RECURSIVE BuildSubgraphs(_, _, _, _, _, _)
RECURSIVE BuildNodes(_, _, _, _, _, _)

\* for (auto& entry : subgraph_map) BuildSubGraphContext(*subgraph) (lines 83-86)
BuildSubgraphs(T, subs, k, R, ord, bad) ==
  IF k > Len(subs) \/ ~R.ok THEN R
  ELSE BuildSubgraphs(T, subs, k + 1,
                      BuildSubGraphContext(T, subs[k], R, ord, bad), ord, bad)

\* Iterate all the nodes and recurse into inner most subgraph first (lines 76-87)
BuildNodes(T, g, i, R, ord, bad) ==
  IF i > MaxNodeIndex(T, g) \/ ~R.ok THEN R
  ELSE IF ~GetNode(T, g, i).live THEN BuildNodes(T, g, i + 1, R, ord, bad)
  ELSE BuildNodes(T, g, i + 1,
                  BuildSubgraphs(T, SubgraphsInOrder(GetNode(T, g, i), ord), 1, R, ord, bad),
                  ord, bad)

\* R = [store, order, ok]: the context store, the creation log, and whether
\* the call is still running normally (FALSE once an exception unwinds it)
BuildSubGraphContext(T, g, R, ord, bad) ==
  LET R1 == BuildNodes(T, g, 1, R, ord, bad) IN
  IF ~R1.ok THEN R1 ELSE BuildOwnContext(T, g, R1, bad)

----------------------------------------------------------------------------
(* SetGraphOuterScopeValuesAndInputs *)

\* The top-level ancestor (lines 167-170)
RECURSIVE TopLevelGraph(_, _)
TopLevelGraph(T, g) ==
  IF ParentGraph(T, g) = 0 THEN g ELSE TopLevelGraph(T, ParentGraph(T, g))

\* Find corresponding original graph node's subgraphs (lines 141-150): the
\* attribute map of the first original node with the candidate node's name,
\* empty when there is none
RECURSIVE FindSubgraphMap(_, _, _, _)
FindSubgraphMap(T, g, j, nm) ==
  IF j > MaxNodeIndex(T, g) THEN <<>>
  ELSE IF GetNode(T, g, j).live /\ GetNode(T, g, j).name = nm
       THEN GetNode(T, g, j).subgraphs
       ELSE FindSubgraphMap(T, g, j + 1, nm)

\* graph.ParentNode()->ImplicitInputDefs()
ParentImplicitInputDefs(T, g) ==
  GetNode(T, ParentGraph(T, g), ParentNode(T, g)).implicit

InputNames(T, g) ==
  {GetInputsIncludingInitializers(T, g)[k].name :
     k \in DOMAIN GetInputsIncludingInitializers(T, g)}

\* ResolveImplicitInput without the promotion to a top-level input
ResolveImplicitInput_NoPromotion(R, gb, top, unique_graph_name, nm) ==
  IF ~GetNodeArg(R.build, gb, nm) THEN R
  ELSE [R EXCEPT !.build[gb].outer_scope = @ \cup {nm}]

\* ResolveImplicitInput dropping an input it finds already promoted
ResolveImplicitInput_Forgets(R, gb, top, unique_graph_name, nm) ==
  IF ~GetNodeArg(R.build, gb, nm) THEN R
  ELSE
    LET build1 == [R.build EXCEPT ![gb].outer_scope = @ \cup {nm}]
        context == R.store[unique_graph_name]
        R1 == [R EXCEPT !.build = build1]
    IN IF nm \in DOMAIN context.manually_added_graph_inputs
       THEN [R1 EXCEPT !.store[unique_graph_name].manually_added_graph_inputs =
                          [n \in DOMAIN @ \ {nm} |-> @[n]]]
       ELSE IF IsOuterScopeValue(R.store, build1, gb, nm) THEN R1
       ELSE IF nm \in InputNames(build1, top) THEN R1
       ELSE [R1 EXCEPT
               !.build[top].node_args = @ \cup {nm},
               !.store[unique_graph_name].manually_added_graph_inputs =
                   (nm :> NodeArg(top, nm)) @@ @]

\* One implicit input of the original parent node (lines 186-221).
\* R = [store, build, err]: the store, the candidate tree, the error logged
ResolveImplicitInput(R, gb, top, unique_graph_name, nm) ==
  IF ~GetNodeArg(R.build, gb, nm) THEN R
  ELSE
    LET build1 == [R.build EXCEPT ![gb].outer_scope = @ \cup {nm}]
        context == R.store[unique_graph_name]
        R1 == [R EXCEPT !.build = build1]
    IN IF nm \in DOMAIN context.manually_added_graph_inputs THEN R1
       ELSE IF IsOuterScopeValue(R.store, build1, gb, nm) THEN R1
       ELSE IF nm \in InputNames(build1, top) THEN R1
       ELSE [R1 EXCEPT
               !.build[top].node_args = @ \cup {nm},
               !.store[unique_graph_name].manually_added_graph_inputs =
                   (nm :> NodeArg(top, nm)) @@ @]

RECURSIVE ResolveImplicitInputs(_, _, _, _, _, _)
ResolveImplicitInputs(R, gb, top, unique_graph_name, implicit, k) ==
  IF k > Len(implicit) THEN R
  ELSE ResolveImplicitInputs(
         ResolveImplicitInput(R, gb, top, unique_graph_name, implicit[k]),
         gb, top, unique_graph_name, implicit, k + 1)

\* ResolveOwnLevel creating the missing top-level context instead of stopping
ResolveOwnLevel_CreatesContext(T, gb, g, R) ==
  IF ParentNode(R.build, gb) = 0 THEN R
  ELSE
    LET top == TopLevelGraph(R.build, gb)
        unique_graph_name == GetUniqueGraphName(R.build, top)
        R1 == IF HasContext(R.store, unique_graph_name) THEN R
              ELSE [R EXCEPT !.store = (unique_graph_name :> NewContext) @@ @]
    IN ResolveImplicitInputs(R1, gb, top, unique_graph_name,
                             ParentImplicitInputDefs(T, g), 1)

\* The body after the recursion (lines 166-223)
ResolveOwnLevel(T, gb, g, R) ==
  IF ParentNode(R.build, gb) = 0 THEN R
  ELSE
    LET top == TopLevelGraph(R.build, gb)
        unique_graph_name == GetUniqueGraphName(R.build, top)
    IN IF ~HasContext(R.store, unique_graph_name)
       THEN [R EXCEPT !.err = TRUE]     \* LOGS_DEFAULT(ERROR); return
       ELSE ResolveImplicitInputs(R, gb, top, unique_graph_name,
                                  ParentImplicitInputDefs(T, g), 1)

RECURSIVE SetGraphOuterScopeValuesAndInputs(_, _, _, _, _)
RECURSIVE ResolveSubgraphs(_, _, _, _, _, _, _)
RECURSIVE ResolveNodes(_, _, _, _, _, _)

\* for (auto& entry : graph_build_map) (lines 152-160): `subs` are the
\* candidate node's subgraphs in iteration order, the attribute name of a
\* subgraph is its position in the node's attribute list
ResolveSubgraphs(T, build_node, subgraph_map, subs, k, R, ord) ==
  IF k > Len(subs) THEN R
  ELSE LET attr_name == CHOOSE a \in DOMAIN build_node.subgraphs :
                           build_node.subgraphs[a] = subs[k]
           R1 == IF attr_name \in DOMAIN subgraph_map
                 THEN SetGraphOuterScopeValuesAndInputs(
                        T, subs[k], subgraph_map[attr_name], R, ord)
                 ELSE R
       IN ResolveSubgraphs(T, build_node, subgraph_map, subs, k + 1, R1, ord)

\* Iterate all the nodes of the newly built graph (lines 133-161)
ResolveNodes(T, gb, g, i, R, ord) ==
  IF i > MaxNodeIndex(R.build, gb) THEN R
  ELSE IF ~GetNode(R.build, gb, i).live THEN ResolveNodes(T, gb, g, i + 1, R, ord)
  ELSE LET graph_build_node == GetNode(R.build, gb, i)
           subgraph_map == FindSubgraphMap(T, g, 1, graph_build_node.name)
       IN ResolveNodes(T, gb, g, i + 1,
                       ResolveSubgraphs(T, graph_build_node, subgraph_map,
                                        SubgraphsInOrder(graph_build_node, ord), 1, R, ord),
                       ord)

\* T is the original tree, R.build the newly built one
SetGraphOuterScopeValuesAndInputs(T, gb, g, R, ord) ==
  ResolveOwnLevel(T, gb, g, ResolveNodes(T, gb, g, 1, R, ord))

----------------------------------------------------------------------------
(* SetAllGraphInputs *)

\* All orders in which an unordered container holding the keys S is iterated
RECURSIVE Orders(_)
Orders(S) ==
  IF S = {} THEN {<<>>}
  ELSE UNION {{<<e>> \o s : s \in Orders(S \ {e})} : e \in S}

\* PushNew without the test for a name already in the list
RECURSIVE PushNew_NoDedup(_, _, _)
PushNew_NoDedup(list, args, k) ==
  IF k > Len(args) THEN list
  ELSE PushNew_NoDedup(Append(list, args[k]), args, k + 1)

\* push_back the entries whose name is not yet in the list (lines 241-258)
RECURSIVE PushNew(_, _, _)
PushNew(list, args, k) ==
  IF k > Len(args) THEN list
  ELSE IF args[k].name \in {list[i].name : i \in DOMAIN list}
       THEN PushNew(list, args, k + 1)
       ELSE PushNew(Append(list, args[k]), args, k + 1)

\* ord1, ord2: the iteration orders of the two unordered maps
SetAllGraphInputs(T, g, store, ord1, ord2) ==
  LET unique_graph_name == GetUniqueGraphName(T, g) IN
  IF \/ ~HasContext(store, unique_graph_name)
     \/ DOMAIN store[unique_graph_name].manually_added_graph_inputs = {}
  THEN T
  ELSE
    LET context == store[unique_graph_name]
        first == [k \in DOMAIN ord1 |-> context.inputs_and_initializers[ord1[k]]]
        second == [k \in DOMAIN ord2 |-> context.manually_added_graph_inputs[ord2[k]]]
        list == PushNew(PushNew(first, second, 1),
                        GetInputsIncludingInitializers(T, g), 1)
    IN [T EXCEPT ![g].inputs = list]     \* graph.SetInputs(...)

----------------------------------------------------------------------------
(* GraphViewer: what SelectQualifiedDQNode and the patch-up read *)

\* A viewer is [nodes: NodeIndex -> node, order: the topological order,
\* types: name -> element type, constant: the names that are constant
\* initializers, outputs: the graph outputs]
DqNode(present, op, ins, outs) ==
  [present |-> present, op |-> op, inputs |-> ins, outputs |-> outs]

EmptyViewer ==
  [nodes |-> <<>>, order |-> <<>>, types |-> EmptyMap, constant |-> {}, outputs |-> {}]

NoPartition == [first |-> <<>>, second |-> FALSE]

DqIdle ==
  /\ viewer = EmptyViewer
  /\ selection_node_set = {}
  /\ consumer_to_dq = <<>>
  /\ supported_node_vector = NoPartition
  /\ supported_nodes_vector = <<>>
  /\ aliased = 0
  /\ appended = 0

\* graph.GetNodesInTopologicalOrder(1)
GetNodesInTopologicalOrder(v) == v.order

\* The output edges of node n: one per (consumer node, input slot) reading
\* an output of n, ordered by consumer index then slot
OutputEdges(v, n) ==
  {<<m, k>> \in (DOMAIN v.nodes) \X (1..2) :
     k \in DOMAIN v.nodes[m].inputs /\ v.nodes[m].inputs[k] \in Range(v.nodes[n].outputs)}

GetOutputEdgesCount(v, n) == Cardinality(OutputEdges(v, n))

\* *node->OutputNodesBegin(): the consumer of the first edge
OutputNodesBegin(v, n) ==
  CHOOSE m \in {e[1] : e \in OutputEdges(v, n)} :
    \A e \in OutputEdges(v, n) : m <= e[1]

\* graph.IsConstantInitializer(name, true)
IsConstantInitializer(v, nm) == nm \in v.constant

\* The element types the selector accepts (line 292)
AllowedTypes == {"INT32", "INT16", "UINT16"}

----------------------------------------------------------------------------
(* SelectQualifiedDQNode *)

\* One node of the topological order (lines 275-298).  S = [set, map,
\* crashed].  A node without inputs makes InputDefs()[0] read past the end
\* of an empty vector: `ub` is what that read yields in this run, a crash or
\* a NodeArg of some type that is or is not a constant initializer.
SelectNode(v, index, S, ub) ==
  LET node == v.nodes[index] IN
  IF ~node.present THEN S
  ELSE IF node.inputs = <<>> /\ ub.crash THEN [S EXCEPT !.crashed = TRUE]
  ELSE
    LET data_type == IF node.inputs = <<>> THEN ub.type
                     ELSE v.types[node.inputs[1]]
        constant_initializer == IF node.inputs = <<>> THEN ub.constant
                                ELSE IsConstantInitializer(v, node.inputs[1])
    IN IF /\ node.op = "DequantizeLinear"
          /\ GetOutputEdgesCount(v, index) = 1
          /\ data_type \in AllowedTypes
          /\ constant_initializer
       THEN [S EXCEPT !.set = @ \cup {index},
                      !.map = (OutputNodesBegin(v, index) :> index) @@ @]
       ELSE S

RECURSIVE SelectFrom(_, _, _, _)
SelectFrom(v, k, S, ub) ==
  IF k > Len(GetNodesInTopologicalOrder(v)) \/ S.crashed THEN S
  ELSE SelectFrom(v, k + 1, SelectNode(v, GetNodesInTopologicalOrder(v)[k], S, ub), ub)

SelectQualifiedDQNode(v, set, map, ub) ==
  SelectFrom(v, 1, [set |-> set, map |-> map, crashed |-> FALSE], ub)

----------------------------------------------------------------------------
(* UpdateSupportedNodeVectorForDQ *)

\* in_the_subgraph_collection looking into the unsupported partitions only
in_the_subgraph_collection_Inverted(node_index, all, node_idx) ==
  \E p \in DOMAIN all :
     /\ ~all[p].second
     /\ \E i \in DOMAIN all[p].first : node_index[all[p].first[i]] = node_idx

\* in_the_subgraph_collection (lines 361-373)
in_the_subgraph_collection(node_index, all, node_idx) ==
  \E p \in DOMAIN all :
     /\ all[p].second
     /\ \E i \in DOMAIN all[p].first : node_index[all[p].first[i]] = node_idx

\* std::find(node_index.begin(), node_index.end(), dq_node_index): the first
\* position holding the node, 0 when there is none
FindPosition(node_index, dq_node_index) ==
  IF \E i \in DOMAIN node_index : node_index[i] = dq_node_index
  THEN CHOOSE i \in DOMAIN node_index :
         /\ node_index[i] = dq_node_index
         /\ \A j \in DOMAIN node_index : node_index[j] = dq_node_index => i <= j
  ELSE 0

\* PushBack putting the position in front of the node list
PushBack_Front(P, k, idx) ==
  LET part1 == [P.part EXCEPT !.first = <<idx>> \o @] IN
  [part |-> part1, all |-> IF k > 0 THEN [P.all EXCEPT ![k] = part1] ELSE P.all]

\* P = [part, all]: the current partition and all partitions; with k > 0 the
\* current partition is all[k], and a push_back to one is a push_back to both
PushBack(P, k, idx) ==
  LET part1 == [P.part EXCEPT !.first = Append(@, idx)] IN
  [part |-> part1, all |-> IF k > 0 THEN [P.all EXCEPT ![k] = part1] ELSE P.all]

\* One entry of the copied node list (lines 353-389)
PatchOne(node_index, P, k, map, index) ==
  IF node_index[index] \notin DOMAIN map THEN P
  ELSE LET dq_node_index == map[node_index[index]] IN
       IF in_the_subgraph_collection(node_index, P.all, dq_node_index) THEN P
       ELSE LET idx == FindPosition(node_index, dq_node_index) IN
            IF idx # 0 THEN PushBack(P, k, idx) ELSE P

RECURSIVE PatchFrom(_, _, _, _, _, _)
PatchFrom(node_index, supported_nodes, i, P, k, map) ==
  IF i > Len(supported_nodes) THEN P
  ELSE PatchFrom(node_index, supported_nodes, i + 1,
                 PatchOne(node_index, P, k, map, supported_nodes[i]), k, map)

UpdateSupportedNodeVectorForDQ(v, part, all, k, map) ==
  IF DOMAIN map = {} THEN [part |-> part, all |-> all]
  ELSE IF ~part.second THEN [part |-> part, all |-> all]
  ELSE PatchFrom(GetNodesInTopologicalOrder(v), part.first, 1,
                 [part |-> part, all |-> all], k, map)

----------------------------------------------------------------------------
(* The graph trees the calls are made on *)

IdSeq == [i \in GraphIds |-> i]
ValueOrder == <<"c", "x", "y">>

\* Every tree shape over the graph ids: graph 1 is the top-level graph
ParentMaps ==
  {p \in [GraphIds -> {0} \cup GraphIds] :
     p[1] = 0 /\ \A g \in GraphIds \ {1} : p[g] \in 1..(g - 1)}

\* The top-level graph is "g"; the first subgraph may share that name, the
\* others share one name
NameMaps ==
  {n \in [GraphIds -> GraphNames] :
     n[1] = "g" /\ \A g \in GraphIds \ {1, 2} : n[g] = "h"}

\* The input and the output of each graph's computing node
\* The top-level node consumes y and produces x; a subgraph's node consumes
\* the outer x, or produces an x of its own, or consumes its own output
ComputeKinds ==
  {[in |-> "x", out |-> "y"], [in |-> "y", out |-> "x"], [in |-> "y", out |-> "y"]}

ComputeMaps ==
  {c \in [GraphIds -> ComputeKinds] : c[1] = [in |-> "y", out |-> "x"]}

\* The inputs the top-level candidate graph declares before the calls
DeclaredInputs == {<<>>, <<"c", "y">>}

Children(par, g) == SelectSeq(IdSeq, LAMBDA c : par[c] = g)

\* The outer-scope values a subgraph needs: what its nodes and its nested
\* subgraphs consume and no node of it produces
RECURSIVE Needs(_, _, _)
Needs(par, comp, g) ==
  LET kids == Range(Children(par, g)) IN
  ({comp[g].in} \cup (IF kids = {} THEN {} ELSE {"c"})
     \cup UNION {Needs(par, comp, c) : c \in kids}) \ {comp[g].out}

\* ImplicitInputDefs of the control-flow node of graph g
ImplicitInputDefs(par, comp, g) ==
  SelectSeq(ValueOrder,
            LAMBDA v : v \in UNION {Needs(par, comp, c) : c \in Range(Children(par, g))})

ControlFlowNode(par, comp, g) ==
  MkNode("n1", <<"c">>, <<>>, ImplicitInputDefs(par, comp, g), Children(par, g))

ComputeNode(comp, g) == MkNode("n2", <<comp[g].in>>, <<comp[g].out>>, <<>>, <<>>)

NodeArgsOf(nodes, inputs) ==
  UNION {Range(nodes[i].inputs) \cup Range(nodes[i].outputs) : i \in DOMAIN nodes}
    \cup {inputs[k].name : k \in DOMAIN inputs}

MkGraph(g, nm, par, nodes, inputs) ==
  [name |-> nm, parent |-> par[g], parent_node |-> IF par[g] = 0 THEN 0 ELSE 1,
   nodes |-> nodes, inputs |-> inputs,
   node_args |-> NodeArgsOf(nodes, inputs), outer_scope |-> {}]

\* A graph with subgraphs holds them on its first node; a leaf graph has a
\* removed node slot before its computing node
NodesOf(par, comp, g) ==
  IF Children(par, g) = <<>> THEN <<NullNode, ComputeNode(comp, g)>>
  ELSE <<ControlFlowNode(par, comp, g), ComputeNode(comp, g)>>

OriginalTree(par, names, comp) ==
  [g \in GraphIds |-> MkGraph(g, names[g], par, NodesOf(par, comp, g), <<>>)]

\* The newly built tree: the nodes of the original with the same names, its
\* subgraphs whole; the top-level graph may leave out the computing node
CandidateTree(par, names, comp, keep, decl) ==
  [g \in GraphIds |->
     IF g = 1
     THEN MkGraph(g, names[g], par,
                  IF keep THEN NodesOf(par, comp, g)
                  ELSE <<ControlFlowNode(par, comp, g)>>,
                  [k \in DOMAIN decl |-> NodeArg(1, decl[k])])
     ELSE MkGraph(g, names[g], par, NodesOf(par, comp, g), <<>>)]

\* op, g: the operation and the graph it was called on; ok: it returned
\* normally (a query: its answer); err: it logged an error; hit: the graph's
\* identity was in the store when the call was made (the builder), the call
\* before was the same call (the resolver)
NoCall == [op |-> "none", g |-> 0, ok |-> TRUE, err |-> FALSE, hit |-> FALSE]

CtxInit ==
  /\ \E par \in ParentMaps, names \in NameMaps, comp \in ComputeMaps,
        keep \in BOOLEAN, decl \in DeclaredInputs :
       /\ graph = OriginalTree(par, names, comp)
       /\ graph_build = CandidateTree(par, names, comp, keep, decl)
  /\ subgraph_context_map_ = <<>>
  /\ call = NoCall
  /\ built = {}
  /\ build_order = <<>>
  /\ calls = 0
  /\ DqIdle

----------------------------------------------------------------------------
(* The calls *)

\* The iteration orders of the attribute maps that differ on some node: two
\* subgraphs of different nodes are never iterated together
SubgraphOrders ==
  {ord \in Orders(GraphIds \ {1}) :
     \A i, j \in DOMAIN ord :
        (i < j /\ ParentGraph(graph_build, ord[i]) # ParentGraph(graph_build, ord[j]))
           => ord[i] < ord[j]}

\* The calls are made on the top-level graph; the subgraphs are reached by
\* the recursion
TopLevelGraphs == {g \in GraphIds : ParentGraph(graph_build, g) = 0}

\* The names ConvertInMemoryDataToInline may fail on in one call
ConvertFailures == {{}, {"c"}}

CallBuildSubGraphContext(g, ord, bad) ==
  LET R == BuildSubGraphContext(graph_build, g,
             [store |-> subgraph_context_map_, order |-> build_order, ok |-> TRUE],
             ord, bad)
  IN /\ calls < MaxCalls
     /\ subgraph_context_map_' = R.store
     /\ build_order' = R.order
     /\ built' = IF R.ok THEN built \cup {g} ELSE built
     /\ call' = [op |-> "BuildSubGraphContext", g |-> g, ok |-> R.ok, err |-> FALSE,
                 hit |-> HasContext(subgraph_context_map_,
                                    GetUniqueGraphName(graph_build, g))]
     /\ calls' = calls + 1
     /\ UNCHANGED <<graph, graph_build>>
     /\ UNCHANGED dq_vars

\* Called on a candidate graph and the original graph it was built from
CallSetGraphOuterScopeValuesAndInputs(g, ord) ==
  LET R == SetGraphOuterScopeValuesAndInputs(graph, g, g,
             [store |-> subgraph_context_map_, build |-> graph_build, err |-> FALSE],
             ord)
  IN /\ calls < MaxCalls
     /\ subgraph_context_map_' = R.store
     /\ graph_build' = R.build
     /\ call' = [op |-> "SetGraphOuterScopeValuesAndInputs", g |-> g,
                 ok |-> TRUE, err |-> R.err,
                 hit |-> (call.op = "SetGraphOuterScopeValuesAndInputs" /\ call.g = g)]
     /\ calls' = calls + 1
     /\ UNCHANGED <<graph, built, build_order>>
     /\ UNCHANGED dq_vars

CallSetAllGraphInputs(g) ==
  LET unique_graph_name == GetUniqueGraphName(graph_build, g)
      context == IF HasContext(subgraph_context_map_, unique_graph_name)
                 THEN subgraph_context_map_[unique_graph_name] ELSE NewContext
  IN /\ calls < MaxCalls
     /\ \E ord1 \in Orders(DOMAIN context.inputs_and_initializers),
           ord2 \in Orders(DOMAIN context.manually_added_graph_inputs) :
          graph_build' = SetAllGraphInputs(graph_build, g, subgraph_context_map_, ord1, ord2)
     /\ call' = [op |-> "SetAllGraphInputs", g |-> g, ok |-> TRUE, err |-> FALSE,
                 hit |-> FALSE]
     /\ calls' = calls + 1
     /\ UNCHANGED <<graph, subgraph_context_map_, built, build_order>>
     /\ UNCHANGED dq_vars

\* IsLocalValue, IsOuterScopeValue, IsInputInitializerOrOutput: const queries
QueryResults ==
  UNION {{IsLocalValue(subgraph_context_map_, graph_build, g, nm),
          IsOuterScopeValue(subgraph_context_map_, graph_build, g, nm),
          IsInputInitializerOrOutput(subgraph_context_map_, graph_build, g, nm, TRUE),
          IsInputInitializerOrOutput(subgraph_context_map_, graph_build, g, nm, FALSE)} :
           g \in GraphIds, nm \in Values}

CallQuery ==
  /\ calls < MaxCalls
  /\ \E result \in QueryResults :
       call' = [op |-> "Query", g |-> 0, ok |-> result, err |-> FALSE, hit |-> FALSE]
  /\ calls' = calls + 1
  /\ UNCHANGED <<graph, graph_build, subgraph_context_map_, built, build_order>>
  /\ UNCHANGED dq_vars

CtxNext ==
  \/ \E g \in TopLevelGraphs, ord \in SubgraphOrders, bad \in ConvertFailures :
       CallBuildSubGraphContext(g, ord, bad)
  \/ \E g \in TopLevelGraphs, ord \in SubgraphOrders :
       CallSetGraphOuterScopeValuesAndInputs(g, ord)
  \/ \E g \in GraphIds : CallSetAllGraphInputs(g)
  \/ CallQuery

Spec == CtxInit /\ [][CtxNext]_vars

----------------------------------------------------------------------------
(* The graphs the selector and the patch-up are run on *)

\* Longest node list of a partition before the patch-up
MaxPartLen == 2

CtxIdle ==
  /\ graph = <<>>
  /\ graph_build = <<>>
  /\ subgraph_context_map_ = EmptyMap
  /\ call = NoCall
  /\ built = {}
  /\ build_order = <<>>
  /\ calls = 0

TensorNames == {"a", "c", "c3", "s", "w", "d1", "d3", "y", "z"}

\* Node 1 is the candidate, node 3 a second DequantizeLinear, nodes 2 and 4
\* the MatMul consumers.  k1 = [op, inputs, type, constant] describes node 1
\* and its first input c; "a" is a graph input, not an initializer.
MkViewer(k1, in2, present3, in4, gout, order) ==
  [nodes |-> << DqNode(TRUE, k1.op, k1.inputs, <<"d1">>),
                DqNode(TRUE, "MatMul", in2, <<"y">>),
                DqNode(present3, "DequantizeLinear", <<"c3", "s">>, <<"d3">>),
                DqNode(TRUE, "MatMul", in4, <<"z">>) >>,
   order |-> order,
   types |-> [n \in TensorNames |->
                IF n = "c" THEN k1.type
                ELSE IF n \in {"a", "c3"} THEN "INT32" ELSE "FLOAT"],
   constant |-> {"c3", "s", "w"} \cup (IF k1.constant THEN {"c"} ELSE {}),
   outputs |-> {"y", "z"} \cup gout]

ElemTypes == {"INT32", "INT16", "UINT16", "INT8"}

Node1Kinds ==
  {[op |-> "DequantizeLinear", inputs |-> <<"c", "s">>, type |-> t, constant |-> b] :
      t \in ElemTypes, b \in BOOLEAN}
  \cup {[op |-> "DequantizeLinear", inputs |-> i, type |-> "INT32", constant |-> TRUE] :
          i \in {<<>>, <<"a", "s">>}}
  \cup {[op |-> "Relu", inputs |-> i, type |-> "INT32", constant |-> TRUE] :
          i \in {<<>>, <<"c">>}}

Node2Inputs == {<<"d1", "w">>, <<"d1", "d1">>, <<"d1", "d3">>, <<"w", "d3">>}
Node4Inputs == {<<"w", "w">>, <<"d3", "w">>, <<"d1", "w">>}
TopologicalOrders == {<<1, 3, 2, 4>>, <<3, 1, 2, 4>>}

Viewers ==
  {MkViewer(k1, in2, p3, in4, gout, order) :
     k1 \in Node1Kinds, in2 \in Node2Inputs, p3 \in BOOLEAN, in4 \in Node4Inputs,
     gout \in {{}, {"d1"}}, order \in TopologicalOrders}

\* What the read past the end of an empty InputDefs() can yield; a graph
\* whose nodes all have inputs never makes that read
NoUB == [crash |-> FALSE, type |-> "INT8", constant |-> FALSE]

UBOutcomes(v) ==
  IF \E n \in DOMAIN v.nodes : v.nodes[n].present /\ v.nodes[n].inputs = <<>>
  THEN {[crash |-> TRUE, type |-> "INT8", constant |-> FALSE]}
       \cup [crash : {FALSE}, type : {"INT32", "INT8"}, constant : BOOLEAN]
  ELSE {NoUB}

DqCall(op, ok) == [op |-> op, g |-> 0, ok |-> ok, err |-> FALSE, hit |-> FALSE]

CallSelectQualifiedDQNode ==
  /\ calls < MaxCalls
  /\ call.ok
  /\ \E ub \in UBOutcomes(viewer) :
       LET S == SelectQualifiedDQNode(viewer, selection_node_set, consumer_to_dq, ub) IN
       /\ selection_node_set' = S.set
       /\ consumer_to_dq' = S.map
       /\ call' = DqCall("SelectQualifiedDQNode", ~S.crashed)
  /\ calls' = calls + 1
  /\ UNCHANGED <<graph, graph_build, subgraph_context_map_, built, build_order>>
  /\ UNCHANGED <<viewer, supported_node_vector, supported_nodes_vector, aliased, appended>>

DqInit ==
  /\ CtxIdle
  /\ viewer \in Viewers
  /\ selection_node_set = {}
  /\ consumer_to_dq = <<>>
  /\ supported_node_vector = NoPartition
  /\ supported_nodes_vector = <<>>
  /\ aliased = 0
  /\ appended = 0

DqNext == CallSelectQualifiedDQNode

SpecDQ == DqInit /\ [][DqNext]_vars

----------------------------------------------------------------------------
(* The partitions the patch-up is run on *)

Positions == 1..4

NoRepeat(l) == \A i, j \in DOMAIN l : l[i] = l[j] => i = j

\* The node lists without a repeated position, of at most n entries
NodeLists(n) ==
  {l \in UNION {[1..k -> Positions] : k \in 0..n} : NoRepeat(l)}

PatchViewers ==
  {MkViewer([op |-> "DequantizeLinear", inputs |-> <<"c", "s">>, type |-> "INT32", constant |-> TRUE],
            in2, TRUE, in4, {}, order) :
     in2 \in {<<"d1", "w">>, <<"d1", "d3">>}, in4 \in {<<"w", "w">>, <<"d3", "w">>},
     order \in TopologicalOrders}

CurrentPartitions ==
  {[first |-> l, second |-> b] : l \in NodeLists(MaxPartLen), b \in BOOLEAN}

OtherPartitions ==
  {[first |-> l, second |-> b] : l \in {<<>>} \cup {<<p>> : p \in Positions}, b \in BOOLEAN}

CallUpdateSupportedNodeVectorForDQ ==
  /\ calls < MaxCalls
  /\ call.ok
  /\ LET P == UpdateSupportedNodeVectorForDQ(viewer, supported_node_vector,
                                            supported_nodes_vector, aliased, consumer_to_dq) IN
     /\ supported_node_vector' = P.part
     /\ supported_nodes_vector' = P.all
     /\ appended' = Len(P.part.first) - Len(supported_node_vector.first)
  /\ call' = DqCall("UpdateSupportedNodeVectorForDQ", TRUE)
  /\ calls' = calls + 1
  /\ UNCHANGED <<graph, graph_build, subgraph_context_map_, built, build_order>>
  /\ UNCHANGED <<viewer, selection_node_set, consumer_to_dq, aliased>>

PatchInit ==
  /\ CtxIdle
  /\ viewer \in PatchViewers
  /\ selection_node_set = {}
  /\ consumer_to_dq = <<>>
  /\ supported_node_vector \in CurrentPartitions
  /\ \E other \in OtherPartitions :
       \/ aliased = 0 /\ supported_nodes_vector = <<other>>
       \/ aliased = 1 /\ supported_nodes_vector = <<supported_node_vector, other>>
  /\ appended = 0

PatchNext == CallSelectQualifiedDQNode \/ CallUpdateSupportedNodeVectorForDQ

SpecPatch == PatchInit /\ [][PatchNext]_vars

----------------------------------------------------------------------------
(* Properties of the context store, the resolver and the reconciler *)

Store == subgraph_context_map_
Top == TopLevelGraph(graph_build, 1)
TopContext == Store[GetUniqueGraphName(graph_build, Top)]

\* The pairs (candidate subgraph, original subgraph) the resolver recurses into
RECURSIVE MatchedPairs(_, _)
MatchedPairs(gb, g) ==
  UNION {LET node == GetNode(graph_build, gb, i)
             smap == FindSubgraphMap(graph, g, 1, node.name)
         IN UNION {{<<node.subgraphs[a], smap[a]>>}
                     \cup MatchedPairs(node.subgraphs[a], smap[a]) :
                   a \in DOMAIN node.subgraphs \cap DOMAIN smap} :
         i \in {j \in 1..MaxNodeIndex(graph_build, gb) : GetNode(graph_build, gb, j).live}}

\* The implicit inputs of the original parent node that candidate S exposes
ExposedImplicit(pair) ==
  {v \in Range(ParentImplicitInputDefs(graph, pair[2])) :
     GetNodeArg(graph_build, pair[1], v)}

ResolverReturned ==
  /\ call.op = "SetGraphOuterScopeValuesAndInputs"
  /\ call.g = Top
  /\ Top \in built

\* C1 as stated: after BuildSubGraphContext ran on the candidate tree, when
\* SetGraphOuterScopeValuesAndInputs returns, every implicit input that a
\* matched nested candidate subgraph S exposes is an outer-scope value of S
\* or is recorded in manually_added_graph_inputs of the top-level context.
C1_ResolvedOrPromoted ==
  ResolverReturned =>
    \A pair \in MatchedPairs(Top, 1) : \A v \in ExposedImplicit(pair) :
       \/ IsOuterScopeValue(Store, graph_build, pair[1], v)
       \/ v \in DOMAIN TopContext.manually_added_graph_inputs

\* C1 as amended: ... or is already a declared input (including
\* initializers) of the top-level candidate graph.
C1_ResolvedOrPromotedOrDeclared ==
  ResolverReturned =>
    \A pair \in MatchedPairs(Top, 1) : \A v \in ExposedImplicit(pair) :
       \/ IsOuterScopeValue(Store, graph_build, pair[1], v)
       \/ v \in DOMAIN TopContext.manually_added_graph_inputs
       \/ v \in InputNames(graph_build, Top)

\* C1 witness: the resolver returned having promoted an exposed implicit
\* input that no ancestor resolves, and having left alone one that the
\* top-level graph already declares.
C1_Witness ==
  /\ ResolverReturned
  /\ \E pair \in MatchedPairs(Top, 1) : \E v \in ExposedImplicit(pair) :
       /\ ~IsOuterScopeValue(Store, graph_build, pair[1], v)
       /\ v \in DOMAIN TopContext.manually_added_graph_inputs
  /\ \E pair \in MatchedPairs(Top, 1) : \E v \in ExposedImplicit(pair) :
       /\ ~IsOuterScopeValue(Store, graph_build, pair[1], v)
       /\ v \in InputNames(graph_build, Top)

NodeOutputs(g) == CollectOutputs(graph_build, g)
NodeInputs(g) == Range(InputDefsFrom(graph_build, g, 1))

\* C2 as stated: in a tree root -> A -> B on which BuildSubGraphContext(root)
\* has run, a value x that only a root node outputs is an outer-scope value of
\* B and of A and is not a local value of B, whatever A and B consume.
C2_AncestorResolution ==
  Top \in built =>
    \A A, B \in GraphIds :
      (ParentGraph(graph_build, A) = Top /\ ParentGraph(graph_build, B) = A) =>
        \A x \in NodeOutputs(Top) \ (NodeOutputs(A) \cup NodeOutputs(B)) :
           /\ IsOuterScopeValue(Store, graph_build, B, x)
           /\ IsOuterScopeValue(Store, graph_build, A, x)
           /\ ~IsLocalValue(Store, graph_build, B, x)

\* C3 as stated: after BuildSubGraphContext(root) returned normally, every
\* input name of every node of every graph of the tree is in exactly one of
\* output_args and inputs_and_initializers of the context under the graph's
\* identity.
C3_ExactlyOneClass ==
  Top \in built =>
    \A g \in GraphIds : \A n \in NodeInputs(g) :
       /\ HasContext(Store, GetUniqueGraphName(graph_build, g))
       /\ (n \in Store[GetUniqueGraphName(graph_build, g)].output_args)
            # (n \in DOMAIN Store[GetUniqueGraphName(graph_build, g)].inputs_and_initializers)

Count(seq, e) == Cardinality({k \in DOMAIN seq : seq[k] = e})

\* C4: a call of BuildSubGraphContext on a graph whose identity is already
\* in the store leaves output_args and inputs_and_initializers of that
\* context as they were and creates no second context for the identity.
C4_BuildTwice ==
  [][(call'.op = "BuildSubGraphContext" /\ calls' = calls + 1 /\ call'.hit) =>
       LET id == GetUniqueGraphName(graph_build, call'.g) IN
       /\ HasContext(Store', id)
       /\ Store'[id].output_args = Store[id].output_args
       /\ Store'[id].inputs_and_initializers = Store[id].inputs_and_initializers
       /\ Count(build_order', id) = Count(build_order, id)]_vars

\* C4 witness: a second call on the top-level graph returned, its context
\* holding outputs and inputs, created once.
C4_Witness ==
  /\ call.op = "BuildSubGraphContext" /\ call.hit /\ call.ok
  /\ Store[GetUniqueGraphName(graph_build, call.g)].output_args # {}
  /\ DOMAIN Store[GetUniqueGraphName(graph_build, call.g)].inputs_and_initializers # {}
  /\ Count(build_order, GetUniqueGraphName(graph_build, call.g)) = 1

Names(list) == {list[k].name : k \in DOMAIN list}
NoNameTwice(list) == \A i, j \in DOMAIN list : list[i].name = list[j].name => i = j

\* The entries of `list` whose name is not in S, first occurrences only
RECURSIVE Remaining(_, _)
Remaining(list, S) ==
  IF list = <<>> THEN <<>>
  ELSE IF Head(list).name \in S THEN Remaining(Tail(list), S)
  ELSE <<Head(list)>> \o Remaining(Tail(list), S \cup {Head(list).name})

\* C5: SetAllGraphInputs on a graph whose context records a manually added
\* input installs a list with no name twice, whose names are those of
\* inputs_and_initializers, manually_added_graph_inputs and the inputs
\* declared before, the inputs_and_initializers values first, then the
\* manually added ones not yet included, then the declared ones not yet
\* included.
C5_InputList ==
  [][(call'.op = "SetAllGraphInputs" /\ calls' = calls + 1) =>
       LET g == call'.g
           id == GetUniqueGraphName(graph_build, g)
       IN (HasContext(Store, id) /\ DOMAIN Store[id].manually_added_graph_inputs # {}) =>
          LET context == Store[id]
              old == graph_build[g].inputs
              new == graph_build'[g].inputs
              I == DOMAIN context.inputs_and_initializers
              M == DOMAIN context.manually_added_graph_inputs \ I
              n1 == Cardinality(I)
              n2 == Cardinality(M)
          IN /\ NoNameTwice(new)
             /\ Names(new) = I \cup DOMAIN context.manually_added_graph_inputs \cup Names(old)
             /\ Len(new) >= n1 + n2
             /\ \A k \in 1..n1 : new[k] = context.inputs_and_initializers[new[k].name]
             /\ {new[k].name : k \in 1..n1} = I
             /\ \A k \in (n1 + 1)..(n1 + n2) :
                   new[k] = context.manually_added_graph_inputs[new[k].name]
             /\ {new[k].name : k \in (n1 + 1)..(n1 + n2)} = M
             /\ SubSeq(new, n1 + n2 + 1, Len(new))
                  = Remaining(old, I \cup M)]_vars

\* C5 witness: the reconciler installed a list made of all three sources,
\* one declared input being dropped as a duplicate.
C5_Witness ==
  /\ call.op = "SetAllGraphInputs"
  /\ HasContext(Store, GetUniqueGraphName(graph_build, call.g))
  /\ LET context == Store[GetUniqueGraphName(graph_build, call.g)]
         list == graph_build[call.g].inputs
     IN /\ DOMAIN context.manually_added_graph_inputs # {}
        /\ DOMAIN context.inputs_and_initializers # {}
        /\ Names(list) \ (DOMAIN context.manually_added_graph_inputs
                            \cup DOMAIN context.inputs_and_initializers) # {}
        /\ \E k \in DOMAIN list :
              list[k].name \in DOMAIN context.inputs_and_initializers
              /\ list[k].graph = call.g

\* C6 as stated: when the resolver reaches a nested candidate subgraph and
\* the store holds no context for the top-level ancestor, the call does not
\* return normally, and it promotes nothing.
C6_MissingContextAborts ==
  (call.op = "SetGraphOuterScopeValuesAndInputs" /\ call.err) =>
     /\ ~call.ok
     /\ \A id \in DOMAIN Store : DOMAIN Store[id].manually_added_graph_inputs = {}

\* C10: only BuildSubGraphContext adds store entries; the other calls neither
\* add nor remove an entry nor change output_args or inputs_and_initializers
\* of a context; manually_added_graph_inputs of every context only grows.
C10_SingleWriter ==
  [][/\ DOMAIN Store \subseteq DOMAIN Store'
     /\ call'.op # "BuildSubGraphContext" => DOMAIN Store' = DOMAIN Store
     /\ \A id \in DOMAIN Store :
          /\ call'.op # "BuildSubGraphContext" =>
               /\ Store'[id].output_args = Store[id].output_args
               /\ Store'[id].inputs_and_initializers = Store[id].inputs_and_initializers
          /\ \A n \in DOMAIN Store[id].manually_added_graph_inputs :
               /\ n \in DOMAIN Store'[id].manually_added_graph_inputs
               /\ Store'[id].manually_added_graph_inputs[n]
                    = Store[id].manually_added_graph_inputs[n]]_vars

\* C10 witness: the resolver has appended to manually_added_graph_inputs of
\* a context that BuildSubGraphContext created, and the reconciler ran after.
C10_Witness ==
  /\ call.op = "SetAllGraphInputs"
  /\ \E id \in DOMAIN Store :
       /\ DOMAIN Store[id].manually_added_graph_inputs # {}
       /\ Store[id].output_args # {}

----------------------------------------------------------------------------
(* Properties of repeated and sequenced calls on the context store *)

\* The resolver is called again on the graph it was just called on
ResolverAgain(g) ==
  /\ call.op = "SetGraphOuterScopeValuesAndInputs" /\ call.g = g
  /\ call'.op = "SetGraphOuterScopeValuesAndInputs" /\ call'.g = g
  /\ calls' = calls + 1

\* C11: a second run of SetGraphOuterScopeValuesAndInputs on the same pair of
\* graphs, nothing else having happened in between, leaves
\* manually_added_graph_inputs of the top-level context (and of every other
\* context) as the first run left it: no value is promoted again and no
\* entry is added or replaced.
C11_PromotionOnce ==
  [][\A g \in TopLevelGraphs : ResolverAgain(g) =>
       /\ DOMAIN Store' = DOMAIN Store
       /\ \A id \in DOMAIN Store :
            Store'[id].manually_added_graph_inputs
              = Store[id].manually_added_graph_inputs]_vars

\* C11 witness: the resolver returned from a second run in a row on a
\* candidate for which it had promoted a value.
C11_Witness ==
  /\ call.op = "SetGraphOuterScopeValuesAndInputs" /\ call.hit /\ ~call.err
  /\ call.g = Top
  /\ DOMAIN TopContext.manually_added_graph_inputs # {}


\* The place of an identity in the creation log, 0 when it is not there
CreatedAt(id) ==
  IF \E k \in DOMAIN build_order : build_order[k] = id
  THEN CHOOSE k \in DOMAIN build_order : build_order[k] = id
  ELSE 0

Identity(g) == GetUniqueGraphName(graph_build, g)

\* C12 as stated: whenever BuildSubGraphContext has created the context of a
\* graph g, the context of every child subgraph c of a node of g was created
\* before it; and when BuildSubGraphContext(root) has returned normally,
\* every graph of the tree has a context in the store.
C12_PostOrder ==
  /\ \A g, c \in GraphIds :
       (ParentGraph(graph_build, c) = g /\ CreatedAt(Identity(g)) # 0) =>
          /\ CreatedAt(Identity(c)) # 0
          /\ CreatedAt(Identity(c)) < CreatedAt(Identity(g))
  /\ Top \in built => \A g \in GraphIds : HasContext(Store, Identity(g))

ResolverStep ==
  call'.op = "SetGraphOuterScopeValuesAndInputs" /\ calls' = calls + 1

ReconcilerStepOnTop ==
  /\ call'.op = "SetAllGraphInputs" /\ call'.g = Top /\ calls' = calls + 1
  /\ Top \in built

\* C13: a run of the resolver changes no graph's identity and neither adds
\* nor removes a context, and SetAllGraphInputs called on the top-level
\* candidate after BuildSubGraphContext returned finds the context of that
\* identity and leaves every value recorded in its
\* manually_added_graph_inputs a declared input of the top-level candidate.
C13_IdentityStable ==
  [][/\ ResolverStep =>
          /\ \A g \in GraphIds :
               GetUniqueGraphName(graph_build', g) = GetUniqueGraphName(graph_build, g)
          /\ DOMAIN Store' = DOMAIN Store
     /\ ReconcilerStepOnTop =>
          /\ HasContext(Store, Identity(Top))
          /\ Store' = Store
          /\ \A v \in DOMAIN Store[Identity(Top)].manually_added_graph_inputs :
               v \in InputNames(graph_build', Top)]_vars

\* C13 witness: after the builder and the resolver, SetAllGraphInputs has
\* returned on the top-level candidate, whose declared inputs now hold a
\* promoted value that no declared input held before the resolver ran.
C13_Witness ==
  /\ call.op = "SetAllGraphInputs" /\ call.g = Top /\ calls = 3
  /\ Top \in built
  /\ \E v \in DOMAIN TopContext.manually_added_graph_inputs :
       /\ v \in InputNames(graph_build, Top)
       /\ NodeArg(Top, v) \in Range(graph_build[Top].inputs)
       /\ v \in graph_build[Top].node_args

\* C14 as stated: when BuildSubGraphContext(root) has returned normally, no
\* two distinct graphs of the tree have been given the same identity, and the
\* context under the identity of every graph of the tree holds the outputs of
\* that graph's own nodes.
C14_IdentityUnique ==
  Top \in built =>
    /\ \A g, h \in GraphIds : Identity(g) = Identity(h) => g = h
    /\ \A g \in GraphIds :
         /\ HasContext(Store, Identity(g))
         /\ Store[Identity(g)].output_args = NodeOutputs(g)

----------------------------------------------------------------------------
(* Properties of the selector and the patch-up *)

SelectorReturned == call.op = "SelectQualifiedDQNode" /\ call.ok

AllHaveInputs(v) == \A n \in DOMAIN v.nodes : v.nodes[n].inputs # <<>>

\* The four conditions of the selection as the claim states them
Eligible(v, n) ==
  /\ v.nodes[n].op = "DequantizeLinear"
  /\ GetOutputEdgesCount(v, n) = 1
  /\ Range(v.nodes[n].outputs) \cap v.outputs = {}
  /\ v.nodes[n].inputs # <<>>
  /\ IsConstantInitializer(v, v.nodes[n].inputs[1])
  /\ v.types[v.nodes[n].inputs[1]] \in AllowedTypes

\* Init(c) -> DequantizeLinear(c)->d, MatMul(d, w)->y, c a constant 16-bit
\* integer initializer
ExampleGraph(v) ==
  /\ v.nodes[1] = DqNode(TRUE, "DequantizeLinear", <<"c", "s">>, <<"d1">>)
  /\ v.nodes[2] = DqNode(TRUE, "MatMul", <<"d1", "w">>, <<"y">>)
  /\ ~v.nodes[3].present
  /\ v.nodes[4].inputs = <<"w", "w">>
  /\ v.types["c"] \in {"INT16", "UINT16"} /\ "c" \in v.constant
  /\ v.outputs = {"y", "z"}

\* C7 as stated, on the graphs whose nodes all have an input: when
\* SelectQualifiedDQNode has returned, a node of the graph is in the
\* selection set if and only if it is a DequantizeLinear with
\* exactly one consuming edge whose output is no graph output, whose first
\* input is a constant initializer of type INT32, INT16 or UINT16; and on the
\* example graph the set is {DequantizeLinear} and the map
\* {MatMul: DequantizeLinear}.
C7_SelectedIffEligible ==
  (SelectorReturned /\ AllHaveInputs(viewer)) =>
    /\ \A n \in Range(GetNodesInTopologicalOrder(viewer)) :
         viewer.nodes[n].present =>
           (n \in selection_node_set <=> Eligible(viewer, n))
    /\ ExampleGraph(viewer) =>
         (selection_node_set = {1} /\ consumer_to_dq = (2 :> 1))

PatchStep == call'.op = "UpdateSupportedNodeVectorForDQ" /\ calls' = calls + 1

\* The positions the step appended to the current partition
AppendedPositions ==
  {supported_node_vector'.first[i] :
     i \in (Len(supported_node_vector.first) + 1)..Len(supported_node_vector'.first)}

\* The nodes a partition holds
NodesIn(part) == {viewer.order[part.first[i]] : i \in DOMAIN part.first}

\* C8 as stated: UpdateSupportedNodeVectorForDQ never appends the position of
\* a node that is in any partition of all partitions, supported or not.
C8_NeverAppendsPresent ==
  [][PatchStep =>
       \A p \in AppendedPositions : \A q \in DOMAIN supported_nodes_vector :
          viewer.order[p] \notin NodesIn(supported_nodes_vector[q])]_vars

\* C8 as amended: UpdateSupportedNodeVectorForDQ never appends the position
\* of a node that is in a partition of all partitions marked supported.
C8_NeverAppendsPresentInSupported ==
  [][PatchStep =>
       \A p \in AppendedPositions : \A q \in DOMAIN supported_nodes_vector :
          supported_nodes_vector[q].second =>
            viewer.order[p] \notin NodesIn(supported_nodes_vector[q])]_vars

\* C8 witness: the patch-up ran on a supported partition, separate from all
\* partitions, holding a consumer whose recorded producer is in a supported
\* partition of all partitions, and appended nothing.
C8_Witness ==
  /\ call.op = "UpdateSupportedNodeVectorForDQ"
  /\ aliased = 0
  /\ supported_node_vector.second
  /\ appended = 0
  /\ \E n \in NodesIn(supported_node_vector) \cap DOMAIN consumer_to_dq :
       /\ consumer_to_dq[n] \notin NodesIn(supported_node_vector)
       /\ \E q \in DOMAIN supported_nodes_vector :
            /\ supported_nodes_vector[q].second
            /\ consumer_to_dq[n] \in NodesIn(supported_nodes_vector[q])

\* What the patch-up leaves alone whatever it is given: the supported flag,
\* the entries the node list had and their order, and the no-op cases
PatchKeepsCurrent ==
  /\ supported_node_vector'.second = supported_node_vector.second
  /\ Len(supported_node_vector'.first) >= Len(supported_node_vector.first)
  /\ SubSeq(supported_node_vector'.first, 1, Len(supported_node_vector.first))
       = supported_node_vector.first
  /\ (DOMAIN consumer_to_dq = {} \/ ~supported_node_vector.second) =>
       /\ supported_node_vector' = supported_node_vector
       /\ supported_nodes_vector' = supported_nodes_vector
  /\ UNCHANGED <<viewer, selection_node_set, consumer_to_dq>>

\* C9 as stated: UpdateSupportedNodeVectorForDQ only appends positions to
\* the end of the current partition's node list; the supported flag, the
\* existing entries and their order and every partition of all partitions
\* are unchanged; with an empty map or an unsupported current partition
\* nothing changes.
C9_OnlyAppends ==
  [][PatchStep =>
       /\ PatchKeepsCurrent
       /\ supported_nodes_vector' = supported_nodes_vector]_vars

\* C9 as amended: ... every partition of all partitions other than the
\* current partition itself is unchanged, and all partitions has as many
\* partitions as before.
C9_OnlyAppendsToCurrent ==
  [][PatchStep =>
       /\ PatchKeepsCurrent
       /\ Len(supported_nodes_vector') = Len(supported_nodes_vector)
       /\ \A q \in DOMAIN supported_nodes_vector :
            q # aliased => supported_nodes_vector'[q] = supported_nodes_vector[q]
       /\ aliased > 0 => supported_nodes_vector'[aliased] = supported_node_vector']_vars

\* C9 witness: the patch-up appended a position to a current partition that
\* is itself an element of all partitions and held entries before.
C9_Witness ==
  /\ call.op = "UpdateSupportedNodeVectorForDQ"
  /\ aliased > 0
  /\ appended > 0
  /\ Len(supported_node_vector.first) > appended
  /\ supported_nodes_vector[aliased] = supported_node_vector

\* C15 as stated: a call of SelectQualifiedDQNode on a graph, nodes without
\* inputs included, returns having visited every node, and no node without
\* inputs is in the selection set.
C15_InputlessNodes ==
  call.op = "SelectQualifiedDQNode" =>
    /\ call.ok
    /\ \A n \in DOMAIN viewer.nodes :
         viewer.nodes[n].inputs = <<>> => n \notin selection_node_set

\* C16 as stated: a call of UpdateSupportedNodeVectorForDQ on a current
\* partition whose node list holds no position twice leaves a node list that
\* holds no position twice, whether or not the current partition is an
\* element of all partitions, and every position it appended is that of the
\* producer recorded for a consumer that was in the partition.
C16_NoPositionTwice ==
  [][(PatchStep /\ NoRepeat(supported_node_vector.first)) =>
       /\ NoRepeat(supported_node_vector'.first)
       /\ \A p \in AppendedPositions :
            \E n \in NodesIn(supported_node_vector) \cap DOMAIN consumer_to_dq :
               consumer_to_dq[n] = viewer.order[p]]_vars

====
